---- MODULE Spec2Model ----
(***************************************************************************)
(* A model of package ymdflag (neomantra/ymdflag): the YMDFlag value, an   *)
(* integral YYYYMMDD date usable as a flag.Value, with its package-level   *)
(* conversions.  Instants are counted in whole hours since                 *)
(* 0001-01-01T00:00:00 UTC (Go's zero Time); a Time also carries whether   *)
(* it has a non-zero part below the hour, and its location.                *)
(***************************************************************************)
EXTENDS Integers, Sequences, FiniteSets, TLC

VARIABLES
    yyyymmdd,   \* YMDFlag.yyyymmdd of the flag under observation
    Local,      \* time.Local, the process-wide local zone
    now,        \* the host clock: the instant time.Now() returns
    ticks,      \* how often the clock has advanced
    op,         \* the operation that ran last
    call,       \* its arguments
    ret,        \* its results
    prev,       \* yyyymmdd before it ran
    origin,     \* what produced the stored value
    reads,      \* whether it called time.Now()
    args,       \* the command line of the example pflag-start-end
    pc,         \* where its main stands
    startDate,  \* its flag --start (yyyymmdd)
    endDate,    \* its flag --end (yyyymmdd)
    st,         \* startDate.AsTime()
    et,         \* endDate.AsTime()
    startTime,
    endTime

\* the variables of the example's main
mainVars == <<args, pc, startDate, endDate, st, et, startTime, endTime>>

vars == <<yyyymmdd, Local, now, ticks, op, call, ret, prev, origin, reads,
          args, pc, startDate, endDate, st, et, startTime, endTime>>

----------------------------------------------------------------------------
(* Bounds of the model *)

\* the clock advances at most this many hours
MaxTicks == 2
\* month fields 0..MaxMonth are tried
MaxMonth == 13
\* day fields 0..MaxDay are tried
MaxDay == 32

----------------------------------------------------------------------------
(* Go integer arithmetic: / truncates toward zero, % takes the dividend's sign *)

GoDiv(a, b) == IF a >= 0 THEN a \div b ELSE -((-a) \div b)

GoMod(a, b) == a - b * GoDiv(a, b)

\* floor division and its non-negative remainder, for b > 0
FloorDiv(a, b) == IF a >= 0 THEN a \div b ELSE -(((-a) + b - 1) \div b)

FloorMod(a, b) == a - b * FloorDiv(a, b)

----------------------------------------------------------------------------
(* The proleptic Gregorian calendar of package time *)

isLeap(year) ==
    FloorMod(year, 4) = 0 /\ (FloorMod(year, 100) # 0 \/ FloorMod(year, 400) = 0)

\* days before the first of each month in a common year
daysBefore == <<0, 31, 59, 90, 120, 151, 181, 212, 243, 273, 304, 334, 365>>

\* days from 0001-01-01 to January 1 of year
daysSinceEpoch(year) ==
    365 * (year - 1) + FloorDiv(year - 1, 4) - FloorDiv(year - 1, 100)
        + FloorDiv(year - 1, 400)

\* days from 0001-01-01 to year-month-day, month and day of any size:
\* the month overflows into the year, the day into the following months
normDays(y, m, day) ==
    daysSinceEpoch(y) + daysBefore[m]
        + (IF isLeap(y) /\ m >= 3 THEN 1 ELSE 0) + (day - 1)

dateToDays(year, month, day) ==
    normDays(year + FloorDiv(month - 1, 12), FloorMod(month - 1, 12) + 1, day)

\* the year a day count falls in
yearOf(days) ==
    CHOOSE y \in FloorDiv(days * 400, 146097)..(FloorDiv(days * 400, 146097) + 2) :
        daysSinceEpoch(y) <= days /\ days < daysSinceEpoch(y + 1)

\* the month of year y a day count falls in
monthOf(y, days) ==
    CHOOSE m \in 1..12 :
        dateToDays(y, m, 1) <= days /\ days < dateToDays(y, m + 1, 1)

dayOf(y, m, days) == [year |-> y, month |-> m, day |-> days - dateToDays(y, m, 1) + 1]

monthAndDayOf(y, days) == dayOf(y, monthOf(y, days), days)

\* the civil date of a day count: [year, month, day]
absDate(days) == monthAndDayOf(yearOf(days), days)

----------------------------------------------------------------------------
(* Locations of package time.  nil stands for a nil *time.Location.  The   *)
(* zones are UTC, one west of Greenwich whose clocks skip local midnight   *)
(* when summer time starts (America/Sao_Paulo, 2018-11-04 00:00 -> 01:00), *)
(* and one east of it that does the same (Africa/Cairo, 2023-04-28).       *)

nil == "nil"

Zones == {"UTC", "America/Sao_Paulo", "Africa/Cairo"}

Locations == Zones \cup {nil}

\* the instant, in hours, of a UTC date and hour
utcHours(year, month, day, hour) == dateToDays(year, month, day) * 24 + hour

\* a zone: its offset before its first transition and its transitions in order
zoneUTC == [first |-> 0, tx |-> <<>>]

zoneSaoPaulo ==
    [first |-> -3,
     tx |-> << [at |-> utcHours(2018, 11, 4, 3), offset |-> -2],
               [at |-> utcHours(2019, 2, 17, 2), offset |-> -3] >>]

zoneCairo ==
    [first |-> 2,
     tx |-> << [at |-> utcHours(2023, 4, 27, 22), offset |-> 3],
               [at |-> utcHours(2023, 10, 26, 21), offset |-> 2] >>]

zoneTable(z) ==
    CASE z = "UTC" -> zoneUTC
      [] z = "America/Sao_Paulo" -> zoneSaoPaulo
      [] z = "Africa/Cairo" -> zoneCairo

\* the ends of time of Location.lookup
alpha == -(2^30)

omega == 2^30

\* Location.lookup: the offset in force at instant h and the period it holds for
period(zt, k) ==
    [offset |-> IF k = 0 THEN zt.first ELSE zt.tx[k].offset,
     start  |-> IF k = 0 THEN alpha ELSE zt.tx[k].at,
     end    |-> IF k = Len(zt.tx) THEN omega ELSE zt.tx[k + 1].at]

periodAt(zt, h) == period(zt, Cardinality({i \in 1..Len(zt.tx) : zt.tx[i].at <= h}))

lookup(z, h) == periodAt(zoneTable(z), h)

----------------------------------------------------------------------------
(* time.Time *)

\* time.Time{}: January 1, year 1, 00:00:00 UTC
ZeroTime == [hours |-> 0, sub |-> 0, loc |-> "UTC"]

\* Time.IsZero: the instant alone decides, not the location
IsZeroTime(t) == t.hours = 0 /\ t.sub = 0

\* time.Date(year, month, day, hour, 0, 0, 0, loc): the fields are normalised,
\* read as UTC, and moved by the offset the zone has there; when that leaves the
\* zone's period the offset is looked up again at the moved instant.  A wall
\* clock time that a zone skips so comes out an hour earlier west of Greenwich
\* and an hour later east of it.
zoneOffsetFor(l, unix, loc) ==
    IF l.offset = 0 THEN 0
    ELSE IF unix - l.offset < l.start \/ unix - l.offset >= l.end
         THEN lookup(loc, unix - l.offset).offset
         ELSE l.offset

unixToTime(unix, loc) ==
    [hours |-> unix - zoneOffsetFor(lookup(loc, unix), unix, loc), sub |-> 0, loc |-> loc]

Date(year, month, day, hour, loc) == unixToTime(utcHours(year, month, day, hour), loc)

\* the wall clock of t in its location, in hours
wall(t) == t.hours + lookup(t.loc, t.hours).offset

civil(t) == absDate(FloorDiv(wall(t), 24))

Year(t) == civil(t).year

Month(t) == civil(t).month

Day(t) == civil(t).day

\* Time.In
In(t, loc) == [t EXCEPT !.loc = loc]

\* time.Now(): the clock's instant, in the local zone
Now == [hours |-> now, sub |-> 1, loc |-> Local]

----------------------------------------------------------------------------
(* Strings are sequences of characters.  A character is an ASCII digit, a  *)
(* decimal digit outside ASCII (U+0663 ARABIC-INDIC DIGIT THREE, U+FF11     *)
(* FULLWIDTH DIGIT ONE), or any other string of length one, which stands    *)
(* for that ASCII character.                                                *)

asciiDigits == <<"0", "1", "2", "3", "4", "5", "6", "7", "8", "9">>

AsciiDigit == {asciiDigits[i] : i \in 1..10}

WideDigit == {"U+0663", "U+FF11"}

digitValue(c) == (CHOOSE i \in 1..10 : asciiDigits[i] = c) - 1

\* the bytes of a character's UTF-8 encoding
utf8Len(c) == IF c = "U+0663" THEN 2 ELSE IF c = "U+FF11" THEN 3 ELSE 1

\* len(str): the length in bytes
len(str) ==
    LET bytes[k \in 0..Len(str)] ==
            IF k = 0 THEN 0 ELSE bytes[k - 1] + utf8Len(str[k])
    IN  bytes[Len(str)]

\* unicode.IsDigit: the decimal digits of every script
IsDigit(c) == c \in AsciiDigit \cup WideDigit

\* errors are sequences of messages, innermost last; nil is no error
noError == <<>>

\* the value of a run of ASCII digits
digitsValue(str) ==
    LET acc[k \in 0..Len(str)] ==
            IF k = 0 THEN 0 ELSE 10 * acc[k - 1] + digitValue(str[k])
    IN  acc[Len(str)]

\* strconv.Atoi: an optional sign and ASCII digits only
Atoi(str) ==
    LET signed == str # <<>> /\ Head(str) \in {"+", "-"}
        body   == IF signed THEN Tail(str) ELSE str
    IN  IF body = <<>> \/ \E i \in 1..Len(body) : body[i] \notin AsciiDigit
        THEN [n |-> 0, err |-> <<"strconv.Atoi: invalid syntax">>]
        ELSE [n |-> IF signed /\ Head(str) = "-" THEN -digitsValue(body)
                    ELSE digitsValue(body),
              err |-> noError]

\* strconv.Itoa: the decimal digits, a minus sign before a negative number
\* the number of decimal digits of n >= 0
width(n) == CHOOSE w \in 1..9 : n < 10^w /\ (w = 1 \/ n >= 10^(w - 1))

natDigits(n) ==
    LET w == width(n)
    IN  [k \in 1..w |-> asciiDigits[((n \div 10^(w - k)) % 10) + 1]]

Itoa(n) == IF n < 0 THEN <<"-">> \o natDigits(-n) ELSE natDigits(n)

\* count zeros
zeros(count) == [k \in 1..count |-> "0"]

\* fmt.Sprintf of the verb %0<w>d: the sign, then zeros up to w characters in
\* all, then the digits; a number wider than w is not cut
padded(n, w) ==
    IF n < 0 THEN <<"-">> \o zeros(w - 1 - width(-n)) \o natDigits(-n)
    ELSE zeros(w - width(n)) \o natDigits(n)

\* fmt.Sprintf("%04d%c%02d%c%02d", year, separator, month, separator, day)
Sprintf(year, separator, month, day) ==
    padded(year, 4) \o <<separator>> \o padded(month, 2) \o <<separator>>
        \o padded(day, 2)

----------------------------------------------------------------------------
(* The package-level functions *)

YMDToTime(n, loc) ==
    IF n = 0 THEN ZeroTime
    ELSE LET year  == GoDiv(n, 10000)
             month == GoDiv(GoMod(n, 10000), 100)
             day   == GoMod(n, 100)
         IN  Date(year, month, day, 0, IF loc = nil THEN Local ELSE loc)

TimeToYMD(t) ==
    IF IsZeroTime(t) THEN 0
    ELSE 10000 * Year(t) + 100 * Month(t) + Day(t)

ValidateYMD(n) ==
    IF n = 0 THEN noError
    ELSE IF n < 0 THEN <<"yyyymmdd is negative">>
    ELSE IF n > 99999999 THEN <<"yyyymmdd is more than 8 digits">>
    ELSE LET year  == GoDiv(n, 10000)
             month == GoDiv(GoMod(n, 10000), 100)
             day   == GoMod(n, 100)
             dt    == Date(year, month, day, 0, Local)
         IN  IF year # Year(dt) \/ month # Month(dt) \/ day # Day(dt)
             THEN <<"yyyymmdd is bad or unnormalized">>
             ELSE noError

\* mutant: every character passes for a digit
isInt_anyChar(value) == TRUE

isInt(value) == \A i \in 1..Len(value) : IsDigit(value[i])

StringToYMD(str) ==
    IF str = <<>> THEN [n |-> 0, err |-> noError]
    ELSE IF len(str) # 8 \/ ~isInt(str)
    THEN [n |-> 0, err |-> <<"expect string of format YYYYMMDD">>]
    ELSE LET a == Atoi(str)
         IN  IF a.err # noError
             THEN [n |-> 0, err |-> <<"failed to convert string">> \o a.err]
             ELSE LET v == ValidateYMD(a.n)
                  IN  IF v # noError
                      THEN [n |-> 0, err |-> <<"failed to validate string">> \o v]
                      ELSE [n |-> a.n, err |-> noError]

----------------------------------------------------------------------------
(* The methods of YMDFlag.  A method with a pointer receiver yields the     *)
(* flag's value after the call (ymd) and whether it read the clock (reads), *)
(* besides what it returns.                                                 *)

NewYMDFlag(t) == TimeToYMD(t)

\* mutant: the value is stored whether or not it is valid
NewYMDFlagFromInt_unvalidated(i) == [ymd |-> i, err |-> ValidateYMD(i)]

NewYMDFlagFromInt(i) ==
    LET e == ValidateYMD(i)
    IN  IF e # noError THEN [ymd |-> 0, err |-> e]
        ELSE [ymd |-> i, err |-> noError]

GetYMD(ymd) == ymd

IsZero(ymd) == ymd = 0

AsYMDString(ymd) == IF ymd = 0 THEN <<>> ELSE Itoa(ymd)

AsYearMonthDay(ymd) ==
    IF IsZero(ymd) THEN <<0, 0, 0>>
    ELSE <<GoDiv(ymd, 10000), GoDiv(GoMod(ymd, 10000), 100), GoMod(ymd, 100)>>

FormatDirPath(ymd, separator) ==
    IF IsZero(ymd) THEN <<>>
    ELSE Sprintf(AsYearMonthDay(ymd)[1], separator, AsYearMonthDay(ymd)[2],
                 AsYearMonthDay(ymd)[3])

\* mutant: a failed parse stores its zero result
Set_storesOnError(ymd, value) ==
    [ymd |-> StringToYMD(value).n, reads |-> FALSE, err |-> StringToYMD(value).err]

\* mutant: the empty string leaves the flag as it was
Set_keepsOnEmpty(ymd, value) ==
    IF value = <<>> \/ StringToYMD(value).err # noError
    THEN [ymd |-> ymd, reads |-> FALSE, err |-> StringToYMD(value).err]
    ELSE [ymd |-> StringToYMD(value).n, reads |-> FALSE, err |-> noError]

Set(ymd, value) ==
    LET r == StringToYMD(value)
    IN  IF r.err # noError THEN [ymd |-> ymd, reads |-> FALSE, err |-> r.err]
        ELSE [ymd |-> r.n, reads |-> FALSE, err |-> noError]

\* mutant: the location is ignored and the local date taken
UpdateNilToNow_localDate(ymd, location) ==
    IF ymd # 0 THEN [ymd |-> ymd, reads |-> FALSE]
    ELSE [ymd |-> TimeToYMD(Now), reads |-> TRUE]

\* mutant: a flag that is set is overwritten too
UpdateNilToNow_always(ymd, location) ==
    [ymd |-> TimeToYMD(IF location # nil THEN In(Now, location) ELSE Now),
     reads |-> TRUE]

UpdateNilToNow(ymd, location) ==
    IF ymd # 0 THEN [ymd |-> ymd, reads |-> FALSE]
    ELSE LET t == IF location # nil THEN In(Now, location) ELSE Now
         IN  [ymd |-> TimeToYMD(t), reads |-> TRUE]

AsTimeWithLoc(ymd, location) ==
    LET loc == IF location = nil THEN Local ELSE location
        u   == UpdateNilToNow(ymd, loc)
    IN  [ymd |-> u.ymd, reads |-> u.reads, t |-> YMDToTime(u.ymd, loc)]

AsTime(ymd) == AsTimeWithLoc(ymd, nil)

\* mutant: String resolves an unset flag to today before formatting it
String_resolving(ymd) ==
    [ymd |-> UpdateNilToNow(ymd, nil).ymd,
     reads |-> UpdateNilToNow(ymd, nil).reads,
     s |-> AsYMDString(UpdateNilToNow(ymd, nil).ymd)]

String(ymd) == [ymd |-> ymd, reads |-> FALSE, s |-> AsYMDString(ymd)]

----------------------------------------------------------------------------
(* Inputs *)

\* the 8 digits of n, zero-padded
pad8(n) == LET d == natDigits(n) IN [i \in 1..(8 - Len(d)) |-> "0"] \o d

\* a Time with a non-zero part below the hour
withSub(t) == [t EXCEPT !.sub = 1]

\* the clock starts at 2018-11-04 02:00 UTC: an hour before midnight in
\* America/Sao_Paulo, where that midnight is skipped, and 04:00 in Africa/Cairo
ClockStart == utcHours(2018, 11, 4, 2)

IntInputs ==
    {0, -1, 101, 9991231, 20181104, 20220102, 20230229, 20240229, 100000101}

StrInputs ==
    { <<>>, pad8(20220102), pad8(9991231), pad8(0), pad8(20181104),
      pad8(20230229), Itoa(123456789),
      <<"2", "0", "2", "2", "-", "0", "1", "-", "0", "1">>,
      <<"h", "e", "l", "l", "o", " ", "w", "o", "r", "l", "d">>,
      <<"+", "2", "0", "2", "2", "0", "1", "0">>,
      <<"2", "0", "2", "2", "0", "1", "U+0663">> }

Separators == {"/", "-"}

TimeInputs ==
    { ZeroTime, withSub(ZeroTime),
      withSub(Date(2020, 1, 2, 1, "UTC")), Date(2020, 1, 2, 23, "UTC"),
      withSub(Date(2022, 1, 2, 3, "UTC")),
      Date(2023, 12, 31, 23, "America/Sao_Paulo"),
      Date(2018, 11, 4, 12, "UTC"),
      Date(1, 1, 1, 0, "Africa/Cairo"),
      Date(999, 12, 31, 0, "UTC"), Date(-1, 3, 5, 0, "UTC"),
      Date(10000, 1, 1, 0, "UTC") }

----------------------------------------------------------------------------
(* The life of one flag: a zero-valued YMDFlag, then any calls on it *)

noCall == [i |-> 0, s |-> <<>>, loc |-> nil, t |-> ZeroTime]

noRet == [n |-> 0, err |-> noError, s |-> <<>>, t |-> ZeroTime, date |-> <<0, 0, 0>>]

\* a flag of the command line: whether it is given, and its value
absent == [given |-> FALSE, value |-> <<>>]

given(str) == [given |-> TRUE, value |-> str]

\* main before its first statement: both flags are zero values
InitMainVars ==
    /\ pc = "Parse"
    /\ startDate = 0
    /\ endDate = 0
    /\ st = ZeroTime
    /\ et = ZeroTime
    /\ startTime = ZeroTime
    /\ endTime = ZeroTime

Init ==
    /\ yyyymmdd = 0
    /\ Local \in Zones
    /\ now = ClockStart
    /\ ticks = 0
    /\ op = "init"
    /\ call = noCall
    /\ ret = noRet
    /\ prev = 0
    /\ origin = "zero value"
    /\ reads = FALSE
    /\ args = [start |-> absent, end |-> absent]
    /\ InitMainVars

\* the host clock advances by an hour
Tick ==
    /\ ticks < MaxTicks
    /\ now' = now + 1
    /\ ticks' = ticks + 1
    /\ op' = "Tick"
    /\ call' = noCall
    /\ ret' = noRet
    /\ prev' = yyyymmdd
    /\ reads' = FALSE
    /\ UNCHANGED <<yyyymmdd, Local, origin>>
    /\ UNCHANGED mainVars

\* what every call records
Called(name, c, r, ymd, rd) ==
    /\ op' = name
    /\ call' = c
    /\ ret' = r
    /\ prev' = yyyymmdd
    /\ yyyymmdd' = ymd
    /\ reads' = rd
    /\ origin' = IF name \in {"NewYMDFlag", "NewYMDFlagFromInt"} THEN name
                 ELSE IF name = "Set" /\ r.err = noError THEN name
                 ELSE IF ymd # yyyymmdd THEN "today"
                 ELSE origin
    /\ UNCHANGED <<Local, now, ticks>>
    /\ UNCHANGED mainVars

CallNewYMDFlag ==
    \E tm \in TimeInputs :
        Called("NewYMDFlag", [noCall EXCEPT !.t = tm], noRet, NewYMDFlag(tm), FALSE)

CallNewYMDFlagFromInt ==
    \E i \in IntInputs :
        \E res \in {NewYMDFlagFromInt(i)} :
            Called("NewYMDFlagFromInt", [noCall EXCEPT !.i = i],
                   [noRet EXCEPT !.err = res.err], res.ymd, FALSE)

\* Set is given one of the input strings or the text the call before returned
CallSet ==
    \E value \in StrInputs \cup {ret.s} :
        \E res \in {Set(yyyymmdd, value)} :
            Called("Set", [noCall EXCEPT !.s = value],
                   [noRet EXCEPT !.err = res.err], res.ymd, res.reads)

CallString ==
    \E res \in {String(yyyymmdd)} :
        Called("String", noCall, [noRet EXCEPT !.s = res.s], res.ymd, res.reads)

CallAsYMDString ==
    Called("AsYMDString", noCall, [noRet EXCEPT !.s = AsYMDString(yyyymmdd)],
           yyyymmdd, FALSE)

CallAsYearMonthDay ==
    Called("AsYearMonthDay", noCall,
           [noRet EXCEPT !.date = AsYearMonthDay(yyyymmdd)], yyyymmdd, FALSE)

\* FormatDirPath takes the flag by value
CallFormatDirPath ==
    \E separator \in Separators :
        Called("FormatDirPath", [noCall EXCEPT !.s = <<separator>>],
               [noRet EXCEPT !.s = FormatDirPath(yyyymmdd, separator)],
               yyyymmdd, FALSE)

CallUpdateNilToNow ==
    \E location \in Locations :
        \E res \in {UpdateNilToNow(yyyymmdd, location)} :
            Called("UpdateNilToNow", [noCall EXCEPT !.loc = location], noRet,
                   res.ymd, res.reads)

CallAsTime ==
    \E res \in {AsTime(yyyymmdd)} :
        Called("AsTime", noCall, [noRet EXCEPT !.t = res.t], res.ymd, res.reads)

CallAsTimeWithLoc ==
    \E location \in Locations :
        \E res \in {AsTimeWithLoc(yyyymmdd, location)} :
            Called("AsTimeWithLoc", [noCall EXCEPT !.loc = location],
                   [noRet EXCEPT !.t = res.t], res.ymd, res.reads)

Next ==
    \/ Tick
    \/ CallNewYMDFlag
    \/ CallNewYMDFlagFromInt
    \/ CallSet
    \/ CallString
    \/ CallAsYMDString
    \/ CallAsYearMonthDay
    \/ CallFormatDirPath
    \/ CallUpdateNilToNow
    \/ CallAsTime
    \/ CallAsTimeWithLoc

Spec == Init /\ [][Next]_vars

----------------------------------------------------------------------------
(* The package-level functions on their own: one call on one input, and     *)
(* TimeToYMD applied to what YMDToTime returned                             *)

Years == {0, 1, 999, 1900, 2000, 2018, 2023, 2024, 9999}

\* every year, month and day field combined, and some values out of range
FnInts ==
    {y * 10000 + m * 100 + d : y \in Years, m \in 0..MaxMonth, d \in 0..MaxDay}
        \cup {0, -1, -20220101, 4161, 100000101, 209901231}

\* the values taken through YMDToTime and back
RoundTripInts ==
    {y * 10000 + m * 100 + d : y \in Years, m \in {1, 2, 4, 11, 12}, d \in {1, 4, 28, 31}}
        \cup {0, 20240229}

BaseStrs == {pad8(20220101), pad8(9991231), pad8(101), pad8(20230229), pad8(20181104)}

MutChars == {"7", "-", "+", " ", "h", "U+0663", "U+FF11"}

replaceAt(str, k, c) == [str EXCEPT ![k] = c]

removeAt(str, k) == SubSeq(str, 1, k - 1) \o SubSeq(str, k + 1, Len(str))

\* each base string, and it with a character replaced, removed or added
FnStrs ==
    {<<>>, pad8(0)} \cup BaseStrs
        \cup {replaceAt(b, k, c) : b \in BaseStrs, k \in 1..8, c \in MutChars}
        \cup {removeAt(b, k) : b \in BaseStrs, k \in 1..8}
        \cup {Append(b, c) : b \in BaseStrs, c \in MutChars}
        \cup {replaceAt(removeAt(b, 1), k, "U+0663") : b \in BaseStrs, k \in 1..7}
        \cup { <<"U+0663", "U+0663", "U+0663", "U+0663">>,
               <<"2", "0", "2", "2", "-", "0", "1", "-", "0", "1">>,
               <<"h", "e", "l", "l", "o", " ", "w", "o", "r", "l", "d">>,
               Itoa(123456789) }

InitFn == Init

\* what a call of a pure function records
Applied(name, c, r) ==
    /\ op' = name
    /\ call' = c
    /\ ret' = r
    /\ UNCHANGED <<yyyymmdd, Local, now, ticks, prev, origin, reads>>
    /\ UNCHANGED mainVars

ApplyValidateYMD ==
    /\ op = "init"
    /\ \E n \in FnInts :
        Applied("ValidateYMD", [noCall EXCEPT !.i = n],
                [noRet EXCEPT !.err = ValidateYMD(n)])

ApplyStringToYMD ==
    /\ op = "init"
    /\ \E str \in FnStrs :
        \E res \in {StringToYMD(str)} :
            Applied("StringToYMD", [noCall EXCEPT !.s = str],
                    [noRet EXCEPT !.n = res.n, !.err = res.err])

ApplyYMDToTime ==
    /\ op = "init"
    /\ \E n \in RoundTripInts, loc \in Locations :
        Applied("YMDToTime", [noCall EXCEPT !.i = n, !.loc = loc],
                [noRet EXCEPT !.t = YMDToTime(n, loc)])

\* TimeToYMD of the Time the call before returned
ApplyTimeToYMD ==
    /\ op = "YMDToTime"
    /\ Applied("TimeToYMD", [call EXCEPT !.t = ret.t],
               [ret EXCEPT !.n = TimeToYMD(ret.t)])

NextFn ==
    \/ ApplyValidateYMD
    \/ ApplyStringToYMD
    \/ ApplyYMDToTime
    \/ ApplyTimeToYMD

SpecFn == InitFn /\ [][NextFn]_vars

----------------------------------------------------------------------------
(* The example pflag-start-end: main, statement by statement, while the     *)
(* clock runs                                                               *)

\* Time.Equal and Time.After compare instants
Equal(t, u) == t.hours = u.hours /\ t.sub = u.sub

After(t, u) == t.hours > u.hours \/ (t.hours = u.hours /\ t.sub > u.sub)

\* the values --start and --end are given on the command line
ArgValues ==
    { absent, given(<<>>), given(pad8(20181103)), given(pad8(20181104)),
      given(pad8(20220102)),
      given(<<"2", "0", "2", "2", "-", "0", "1", "-", "0", "1">>) }

\* the clock starts an hour before a midnight of UTC, or at ClockStart
MainClockStarts == {utcHours(2018, 11, 3, 23), ClockStart}

InitMain ==
    /\ yyyymmdd = 0
    /\ Local \in Zones
    /\ now \in MainClockStarts
    /\ ticks = 0
    /\ op = "init"
    /\ call = noCall
    /\ ret = noRet
    /\ prev = 0
    /\ origin = "zero value"
    /\ reads = FALSE
    /\ args \in [start : ArgValues, end : ArgValues]
    /\ InitMainVars

flagVars == <<yyyymmdd, op, call, ret, prev, origin, reads>>

\* pflag.Parse calls Set on each flag that is given; an error of Set ends the
\* program with status 2
Parse ==
    /\ pc = "Parse"
    /\ \E s \in {IF args.start.given THEN Set(startDate, args.start.value)
                  ELSE [ymd |-> startDate, reads |-> FALSE, err |-> noError]},
          e \in {IF args.end.given THEN Set(endDate, args.end.value)
                  ELSE [ymd |-> endDate, reads |-> FALSE, err |-> noError]} :
        /\ startDate' = s.ymd
        /\ endDate' = e.ymd
        /\ pc' = IF s.err # noError \/ e.err # noError THEN "exit 2"
                 ELSE "Default"
    /\ UNCHANGED <<Local, now, ticks, args, st, et, startTime, endTime>>
    /\ UNCHANGED flagVars

\* if startDate.IsZero() { startDate = endDate }
Default ==
    /\ pc = "Default"
    /\ startDate' = IF IsZero(startDate) THEN endDate ELSE startDate
    /\ pc' = "StartAsTime"
    /\ UNCHANGED <<Local, now, ticks, args, endDate, st, et, startTime, endTime>>
    /\ UNCHANGED flagVars

\* st := startDate.AsTime()
StartAsTime ==
    /\ pc = "StartAsTime"
    /\ \E res \in {AsTime(startDate)} :
        /\ startDate' = res.ymd
        /\ st' = res.t
    /\ pc' = "EndAsTime"
    /\ UNCHANGED <<Local, now, ticks, args, endDate, et, startTime, endTime>>
    /\ UNCHANGED flagVars

\* et := endDate.AsTime()
EndAsTime ==
    /\ pc = "EndAsTime"
    /\ \E res \in {AsTime(endDate)} :
        /\ endDate' = res.ymd
        /\ et' = res.t
    /\ pc' = "Compare"
    /\ UNCHANGED <<Local, now, ticks, args, startDate, st, startTime, endTime>>
    /\ UNCHANGED flagVars

\* the if statement and the print after it
Compare ==
    /\ pc = "Compare"
    /\ IF Equal(et, st) \/ After(et, st)
       THEN /\ startTime' = Date(Year(st), Month(st), Day(st), 0, "UTC")
            /\ endTime' = withSub(Date(Year(et), Month(et), Day(et), 23, "UTC"))
            /\ pc' = "done"
       ELSE /\ pc' = "exit 1"
            /\ UNCHANGED <<startTime, endTime>>
    /\ UNCHANGED <<Local, now, ticks, args, startDate, endDate, st, et>>
    /\ UNCHANGED flagVars

NextMain ==
    \/ Tick
    \/ Parse
    \/ Default
    \/ StartAsTime
    \/ EndAsTime
    \/ Compare

SpecMain == InitMain /\ [][NextMain]_vars

----------------------------------------------------------------------------
(* What the claims are stated with *)

\* the calendar's rule, not the library's: the length of a month
monthLength(year, month) ==
    IF month \in {4, 6, 9, 11} THEN 30
    ELSE IF month # 2 THEN 31
    ELSE IF (year % 4 = 0 /\ year % 100 # 0) \/ year % 400 = 0 THEN 29
    ELSE 28

\* n in 1..99999999 whose fields are a date of the proleptic Gregorian calendar
realDate(n) ==
    /\ 1 <= n /\ n <= 99999999
    /\ ((n % 10000) \div 100) \in 1..12
    /\ (n % 100) \in 1..monthLength(n \div 10000, (n % 10000) \div 100)

\* exactly 8 characters, each an ASCII digit
eightAsciiDigits(str) == Len(str) = 8 /\ \A k \in 1..8 : str[k] \in AsciiDigit

\* the decimal value of 8 ASCII digits
decimal8(str) ==
    digitValue(str[1]) * 10000000 + digitValue(str[2]) * 1000000
        + digitValue(str[3]) * 100000 + digitValue(str[4]) * 10000
        + digitValue(str[5]) * 1000 + digitValue(str[6]) * 100
        + digitValue(str[7]) * 10 + digitValue(str[8])

\* the YYYYMMDD of the clock's current date as seen in a location
todayIn(location) ==
    LET z == IF location = nil THEN Local ELSE location
        d == absDate(FloorDiv(now + lookup(z, now).offset, 24))
    IN  10000 * d.year + 100 * d.month + d.day

\* the hour of the day of a Time in its location
Hour(t) == FloorMod(wall(t), 24)

\* t is 00:00:00.0 of year-month-day in location (local when nil)
midnightOf(t, year, month, day, location) ==
    /\ Year(t) = year /\ Month(t) = month /\ Day(t) = day
    /\ Hour(t) = 0 /\ t.sub = 0
    /\ t.loc = IF location = nil THEN Local ELSE location

\* the YYYYMMDD of a Time's date in its own location
dateOf(t) == 10000 * Year(t) + 100 * Month(t) + Day(t)

\* the operations that resolve an unset flag to today
ResolveOps == {"UpdateNilToNow", "AsTime", "AsTimeWithLoc"}

----------------------------------------------------------------------------
(* The claims *)

\* C1: ValidateYMD(n) returns nil exactly when n is 0 or n is in 1..99999999
\* and its year, month and day fields are a real calendar date; every other
\* integer is an error.
C1_ValidateExactlyRealDates ==
    op = "ValidateYMD" =>
        (ret.err = noError <=> (call.i = 0 \/ realDate(call.i)))

\* C2: for every non-zero n that ValidateYMD accepts and every location,
\* TimeToYMD(YMDToTime(n, loc)) is n.
C2_RoundTrip ==
    (op = "TimeToYMD" /\ call.i # 0 /\ ValidateYMD(call.i) = noError) =>
        ret.n = call.i

\* C3: StringToYMD returns (0, nil) for the empty string, (n, nil) for exactly
\* 8 ASCII digits whose value n passes ValidateYMD, and an error with result 0
\* for every other string.
C3_StringToYMD ==
    op = "StringToYMD" =>
        IF call.s = <<>> THEN ret.n = 0 /\ ret.err = noError
        ELSE IF eightAsciiDigits(call.s) /\ ValidateYMD(decimal8(call.s)) = noError
        THEN ret.n = decimal8(call.s) /\ ret.err = noError
        ELSE ret.n = 0 /\ ret.err # noError

\* C3 witness: 8 bytes of decimal digits, not all of them ASCII, are refused
\* by the conversion to an integer
C3_Witness ==
    /\ op = "StringToYMD"
    /\ len(call.s) = 8 /\ isInt(call.s) /\ ~eightAsciiDigits(call.s)
    /\ ret.n = 0 /\ ret.err # noError /\ Head(ret.err) = "failed to convert string"

\* C4: for a flag value that NewYMDFlagFromInt, Set or resolving to today can
\* produce, AsYMDString and String return the empty string when the flag is
\* unset and otherwise exactly 8 decimal digits, zero-padded on the left.
C4_EightCharacters ==
    (op \in {"String", "AsYMDString"} /\ origin # "NewYMDFlag") =>
        IF yyyymmdd = 0 THEN ret.s = <<>> ELSE eightAsciiDigits(ret.s)

\* C5: the stored yyyymmdd is always in 0..99999999.
C5_StoredInRange == 0 <= yyyymmdd /\ yyyymmdd <= 99999999

\* C6: String leaves the stored value as it was, does not read the clock,
\* returns the empty string for an unset flag, which stays unset, and returns
\* the same text when called again.
C6_StringHasNoEffect ==
    /\ [](op = "String" =>
            /\ yyyymmdd = prev
            /\ ~reads
            /\ (prev = 0 => ret.s = <<>> /\ yyyymmdd = 0))
    /\ [][(op = "String" /\ op' = "String") => ret'.s = ret.s]_vars

\* C6 witness: String was called on an unset flag
C6_Witness == op = "String" /\ prev = 0 /\ yyyymmdd = 0 /\ ret.s = <<>>

\* C7: UpdateNilToNow(location) turns a stored 0 into the YYYYMMDD of the
\* clock's current date in location, local time when location is nil, and
\* changes nothing when the stored value is not 0.
C7_UpdateNilToNow ==
    op = "UpdateNilToNow" =>
        IF prev = 0 THEN yyyymmdd = todayIn(call.loc) /\ yyyymmdd # 0
        ELSE yyyymmdd = prev /\ ~reads

\* C7 witness: an unset flag took the date of a location where it is not the
\* local date
C7_Witness ==
    /\ op = "UpdateNilToNow" /\ prev = 0 /\ call.loc # nil
    /\ yyyymmdd = todayIn(call.loc) /\ yyyymmdd # todayIn(nil)

\* C8: once the stored value is not 0, no call of UpdateNilToNow, AsTime or
\* AsTimeWithLoc changes it, whatever the location and the clock.
C8_ResolvedOnce ==
    [][(yyyymmdd # 0 /\ op' \in ResolveOps) => yyyymmdd' = yyyymmdd]_vars

\* C8 witness: a resolving call on a flag that is set, after the clock has
\* moved to another date than the stored one in the location asked for
C8_Witness ==
    /\ op \in ResolveOps /\ origin = "today" /\ prev # 0 /\ yyyymmdd = prev
    /\ yyyymmdd # todayIn(call.loc)

\* C9: Set stores the integer StringToYMD returns when parsing succeeds; when
\* it fails Set returns StringToYMD's error and the stored value stays.
C9_Set ==
    op = "Set" =>
        IF StringToYMD(call.s).err = noError
        THEN yyyymmdd = StringToYMD(call.s).n /\ ret.err = noError
        ELSE yyyymmdd = prev /\ ret.err = StringToYMD(call.s).err

\* C9 witness: a failed Set on a flag that held a date
C9_Witness ==
    op = "Set" /\ ret.err # noError /\ prev # 0 /\ yyyymmdd = prev

\* C10: Set("") leaves any flag unset without reading the clock; only the
\* resolving operations read it.
C10_SetEmpty ==
    /\ (op = "Set" /\ call.s = <<>>) =>
            (yyyymmdd = 0 /\ IsZero(yyyymmdd) /\ ~reads /\ ret.err = noError)
    /\ reads => op \in ResolveOps

\* C10 witness: Set("") on a flag that held a date
C10_Witness == op = "Set" /\ call.s = <<>> /\ prev # 0 /\ yyyymmdd = 0

\* C11: FormatDirPath returns the empty string for an unset flag and
\* otherwise the 10 characters YYYY, separator, MM, separator, DD of the stored
\* value, zero-padded; it does not read the clock and leaves the flag as it was.
C11_FormatDirPath ==
    op = "FormatDirPath" =>
        /\ yyyymmdd = prev /\ ~reads
        /\ IF prev = 0 THEN ret.s = <<>>
           ELSE /\ Len(ret.s) = 10
                /\ ret.s[5] = Head(call.s) /\ ret.s[8] = Head(call.s)
                /\ \A k \in {1, 2, 3, 4, 6, 7, 9, 10} : ret.s[k] \in AsciiDigit
                /\ 1000 * digitValue(ret.s[1]) + 100 * digitValue(ret.s[2])
                     + 10 * digitValue(ret.s[3]) + digitValue(ret.s[4])
                        = prev \div 10000
                /\ 10 * digitValue(ret.s[6]) + digitValue(ret.s[7])
                        = (prev % 10000) \div 100
                /\ 10 * digitValue(ret.s[9]) + digitValue(ret.s[10]) = prev % 100

\* C12: YMDToTime(0, loc) is the zero time for every loc; for a non-zero n
\* that ValidateYMD accepts it is midnight of year n/10000, month
\* (n%10000)/100, day n%100 in loc, in the local zone when loc is nil.
C12_YMDToTime ==
    op = "YMDToTime" =>
        IF call.i = 0 THEN ret.t = ZeroTime
        ELSE ValidateYMD(call.i) = noError =>
                midnightOf(ret.t, call.i \div 10000, (call.i % 10000) \div 100,
                           call.i % 100, call.loc)

\* C13: AsTime() or AsTimeWithLoc(loc) on an unset flag returns a time whose
\* year, month and day are those of the clock's current date in loc (local
\* when nil), and afterwards the flag is not zero and holds that date.
C13_BecomesToday ==
    (op \in {"AsTime", "AsTimeWithLoc"} /\ prev = 0) =>
        /\ 10000 * Year(ret.t) + 100 * Month(ret.t) + Day(ret.t)
                = todayIn(call.loc)
        /\ yyyymmdd # 0 /\ yyyymmdd = todayIn(call.loc)

\* C14: when the stored value is 0 as AsTime() or AsTimeWithLoc(loc) is
\* called, the time returned is a zero time.
C14_ZeroGivesZeroTime ==
    (op \in {"AsTime", "AsTimeWithLoc"} /\ prev = 0) => IsZeroTime(ret.t)

\* C15: AsYearMonthDay() returns (0, 0, 0) for an unset flag and for a set
\* one (y, m, d) with y*10000 + m*100 + d the stored value, m and d in 0..99;
\* called on a flag that NewYMDFlag built from a time t, it returns t's year,
\* month and day.  It leaves the flag as it was.
C15_AsYearMonthDay ==
    /\ [](op = "AsYearMonthDay" =>
            /\ yyyymmdd = prev /\ ~reads
            /\ IF prev = 0 THEN ret.date = <<0, 0, 0>>
               ELSE /\ 10000 * ret.date[1] + 100 * ret.date[2] + ret.date[3] = prev
                    /\ ret.date[2] \in 0..99 /\ ret.date[3] \in 0..99)
    /\ [][(op = "NewYMDFlag" /\ ~IsZeroTime(call.t) /\ op' = "AsYearMonthDay") =>
            ret'.date = <<Year(call.t), Month(call.t), Day(call.t)>>]_vars

\* C16: when ValidateYMD(i) succeeds, NewYMDFlagFromInt(i) returns a flag
\* whose GetYMD() is i and a nil error, an unset flag for 0; when it fails,
\* NewYMDFlagFromInt returns that error and a flag that does not hold i.
C16_NewYMDFlagFromInt ==
    op = "NewYMDFlagFromInt" =>
        IF ValidateYMD(call.i) = noError
        THEN /\ GetYMD(yyyymmdd) = call.i /\ ret.err = noError
             /\ (call.i = 0 => IsZero(yyyymmdd))
        ELSE ret.err = ValidateYMD(call.i) /\ GetYMD(yyyymmdd) # call.i

\* C16 witness: an integer that is no date was refused and not stored
C16_Witness ==
    /\ op = "NewYMDFlagFromInt" /\ call.i = 20230229
    /\ ret.err # noError /\ IsZero(yyyymmdd)

\* C17: for a non-zero time t, NewYMDFlag(t) stores 10000*year + 100*month +
\* day of t in t's location, AsTime() of that flag is midnight of that year,
\* month and day in the local zone, and a second time on the same date gives
\* the same flag; a zero time gives an unset flag.
C17_NewYMDFlag ==
    /\ [](op = "NewYMDFlag" =>
            IF IsZeroTime(call.t) THEN IsZero(yyyymmdd)
            ELSE yyyymmdd = dateOf(call.t))
    /\ [][(op = "NewYMDFlag" /\ ~IsZeroTime(call.t) /\ op' = "AsTime") =>
            midnightOf(ret'.t, Year(call.t), Month(call.t), Day(call.t), nil)]_vars
    /\ [][(/\ op = "NewYMDFlag" /\ ~IsZeroTime(call.t)
           /\ op' = "NewYMDFlag" /\ ~IsZeroTime(call'.t)
           /\ dateOf(call'.t) = dateOf(call.t)) => yyyymmdd' = yyyymmdd]_vars

\* C18: ValidateYMD(n) returns an error for every n with 0 < n < 10000000,
\* a value of fewer than 8 digits.
C18_TooFewDigits ==
    (op = "ValidateYMD" /\ 0 < call.i /\ call.i < 10000000) => ret.err # noError

\* C19: in the example pflag-start-end, when --start is not given, the year,
\* month and day of startTime are those of endTime and the branch "--start
\* must be before --end" is not taken, also when the clock advances between
\* the two calls of AsTime.
C19_StartDefaultsToEnd ==
    ~args.start.given =>
        /\ pc # "exit 1"
        /\ pc = "done" => dateOf(startTime) = dateOf(endTime)

\* C20: for a flag value that NewYMDFlagFromInt, Set or resolving to today
\* produced, Set of the text String() returned succeeds and leaves the stored
\* value as it is; and String() called right after a Set(s) that succeeded
\* returns s.
C20_TextRoundTrip ==
    /\ [][(/\ op = "String" /\ origin # "NewYMDFlag"
           /\ op' = "Set" /\ call'.s = ret.s) =>
                (ret'.err = noError /\ yyyymmdd' = yyyymmdd)]_vars
    /\ [][(op = "Set" /\ ret.err = noError /\ op' = "String") =>
                ret'.s = call.s]_vars

====
